---- MODULE Spec2Model ----
(***************************************************************************)
(* A model of the wasmrun execution engine (src/src/exec.rs and            *)
(* src/src/exec/{stack,store}.rs): the Store, the module instances, the    *)
(* operand stack, the frame stack, the control (instruction pointer)       *)
(* stack, module allocation, `call` and the dispatch loop `exec`.          *)
(*                                                                         *)
(* `call` and `exec` are mutually recursive in the source.  The model      *)
(* keeps the host's chain of active `call` invocations in `act` and takes  *)
(* one step per dispatched instruction; the prologue of `call` (up to the  *)
(* push of the Function entry) is one step, and its epilogue (from the     *)
(* return of `exec` to the return of `call`) is part of the step that      *)
(* ends the dispatch loop.                                                 *)
(*                                                                         *)
(* 32-bit integers are kept as their i32 value (-2^31 .. 2^31-1); the      *)
(* unsigned reading of the same bits is computed where the source casts.   *)
(***************************************************************************)
EXTENDS Integers, Sequences, FiniteSets, TLC

VARIABLES
    store,      \* Runtime.store: [funcs, tables, mems, globals]
    stack,      \* Runtime.stack: the operand stack, top = last element
    frames,     \* Runtime.frames: the frame stack, current = last element
    modules,    \* Runtime.modules: the module instances
    ip,         \* Runtime.ip: the control stack, top = last element
    act,        \* the host's chain of active `call` invocations, innermost last
    status,     \* "ok", or the kind of the panic that ended the process
    checked,    \* TRUE: the build panics on integer overflow; FALSE: it wraps
    avail,      \* the parsed modules handed to the embedder
    ops         \* number of embedder operations done so far

vars == <<store, stack, frames, modules, ip, act, status, checked, avail, ops>>

rtvars == <<store, stack, frames, modules, ip>>

-----------------------------------------------------------------------------
(* Bounds of the model *)

\* Embedder operations (allocate_module, top-level call) per run.
MaxHostOps == 3

\* Nested `call` invocations (the source is bounded by the host stack).
MaxDepth == 4

\* the operand stack on its own holds at most MaxStack values
MaxStack == 3

-----------------------------------------------------------------------------
(* Program constants *)

PAGE_SIZE == 65536

MaxI32 == 2147483647

MinI32 == -2147483647 - 1

\* u32::MAX as the i32 with the same bits
SENTINEL == -1

-----------------------------------------------------------------------------
(* Sequences *)

Last(s) == s[Len(s)]

Front(s) == SubSeq(s, 1, Len(s) - 1)

\* s with its last n elements removed (all of them when n > Len(s))
DropLast(s, n) == IF n >= Len(s) THEN <<>> ELSE SubSeq(s, 1, Len(s) - n)

Min2(a, b) == IF a <= b THEN a ELSE b

-----------------------------------------------------------------------------
(* Values: the variants pushed by the operand stack *)

VI32(i) == [ty |-> "I32", val |-> i]

VI64(i) == [ty |-> "I64", val |-> i]

VF32(f) == [ty |-> "F32", val |-> f]

VF64(f) == [ty |-> "F64", val |-> f]

-----------------------------------------------------------------------------
(* 32-bit arithmetic on i32 representatives *)

\* (a + b) mod 2^32 as an i32: wrapping_add, identical bits for u32 and i32
WrapAdd(a, b) ==
    IF a >= 0 /\ b >= 0 /\ a > MaxI32 - b THEN (a + MinI32) + (b + MinI32)
    ELSE IF a < 0 /\ b < 0 /\ a < MinI32 - b THEN (a - MinI32) + (b - MinI32)
    ELSE a + b

\* (a - b) mod 2^32 as an i32: wrapping_sub
WrapSub(a, b) ==
    IF a >= 0 /\ b < 0 /\ a > MaxI32 + b THEN (a + MinI32) - (b - MinI32)
    ELSE IF a < 0 /\ b > 0 /\ a < MinI32 + b THEN (a - MinI32) - (b + MinI32)
    ELSE a - b

\* the u32 addition of the same bits carries out of 32 bits
CarryU32(a, b) ==
    \/ a < 0 /\ b < 0
    \/ a < 0 /\ b >= 0 /\ a + b >= 0
    \/ a >= 0 /\ b < 0 /\ a + b >= 0

\* the i32 subtraction leaves the i32 range
OverflowSubI32(a, b) ==
    \/ a >= 0 /\ b < 0 /\ a > MaxI32 + b
    \/ a < 0 /\ b > 0 /\ a < MinI32 + b

\* unsigned order of the bits of a and b
LeU32(a, b) ==
    IF (a >= 0) = (b >= 0) THEN a <= b ELSE a >= 0

\* i32::to_le_bytes
ToLeBytes(v) ==
    << v % 256, (v \div 256) % 256, (v \div 65536) % 256, (v \div 16777216) % 256 >>

\* i32::from_le_bytes
FromLeBytes(b) ==
    b[1] + 256 * b[2] + 65536 * b[3]
         + 16777216 * (IF b[4] >= 128 THEN b[4] - 256 ELSE b[4])

-----------------------------------------------------------------------------
(* Instructions (parser::Instruction); every instruction has the same      *)
(* shape: the immediate in arg (the offset of a MemArg), the body of a     *)
(* block in instrs.                                                        *)

Instr(o, a, b) == [op |-> o, arg |-> a, instrs |-> b]

I32Store(offset) == Instr("I32Store", offset, <<>>)

I32Load(offset) == Instr("I32Load", offset, <<>>)

LocalGet(idx) == Instr("LocalGet", idx, <<>>)

LocalSet(idx) == Instr("LocalSet", idx, <<>>)

LocalTee(idx) == Instr("LocalTee", idx, <<>>)

GlobalGet(idx) == Instr("GlobalGet", idx, <<>>)

GlobalSet(idx) == Instr("GlobalSet", idx, <<>>)

I32Const(i) == Instr("I32Const", i, <<>>)

I64Const(i) == Instr("I64Const", i, <<>>)

F32Const(f) == Instr("F32Const", f, <<>>)

F64Const(f) == Instr("F64Const", f, <<>>)

I32Eqz == Instr("I32Eqz", 0, <<>>)

I32Le_u == Instr("I32Le_u", 0, <<>>)

I32Sub == Instr("I32Sub", 0, <<>>)

Call(func_idx) == Instr("Call", func_idx, <<>>)

CallIndirect(type_idx) == Instr("CallIndirect", type_idx, <<>>)

Return == Instr("Return", 0, <<>>)

Block(instrs) == Instr("Block", 0, instrs)

Loop(instrs) == Instr("Loop", 0, instrs)

BrIf(lbl_idx) == Instr("BrIf", lbl_idx, <<>>)

\* instructions outside the dispatch table
Nop == Instr("Nop", 0, <<>>)

I32Add == Instr("I32Add", 0, <<>>)

-----------------------------------------------------------------------------
(* Step results: what a piece of code leaves behind, with the kind of the  *)
(* panic that stopped it ("ok" when none did).                             *)

Res(st, s, f, sto, i) ==
    [status |-> st, stack |-> s, frames |-> f, store |-> sto, ip |-> i]

-----------------------------------------------------------------------------
(* Operand stack (exec/stack.rs) *)

\* Stack::push, push_value
Push(s, v) == Append(s, v)

\* Stack::push_u32 / push_i32: the value is kept as the i32 with these bits
PushI32(s, i) == Push(s, VI32(i))

\* Stack::push_bool
PushBool(s, b) == PushI32(s, IF b THEN 1 ELSE 0)

\* Stack::pop, pop_value: the popped value, or the panic on an empty stack
Pop(s) ==
    IF Len(s) = 0
    THEN [status |-> "empty_stack", val |-> VI32(0), stack |-> s]
    ELSE [status |-> "ok", val |-> Last(s), stack |-> Front(s)]

\* a pop_i32 that hands out the payload of any variant
PopI32AnyVariant(s) ==
    IF Len(s) = 0
    THEN [status |-> "empty_stack", val |-> 0, stack |-> s]
    ELSE [status |-> "ok", val |-> Last(s).val, stack |-> Front(s)]

\* Stack::pop_i32: the top value is removed before its variant is looked at
PopI32(s) ==
    IF Len(s) = 0
    THEN [status |-> "empty_stack", val |-> 0, stack |-> s]
    ELSE IF Last(s).ty = "I32"
         THEN [status |-> "ok", val |-> Last(s).val, stack |-> Front(s)]
         ELSE [status |-> "type", val |-> 0, stack |-> Front(s)]

-----------------------------------------------------------------------------
(* Frame stack (exec/frame.rs) *)

\* the zero of a declared local; a parameter slot holds it until it is bound
DefaultLocal(t) == [ty |-> t, val |-> 0]

\* FrameStack::push: one slot per parameter and per declared local
FramePush(fs, func, nparams) ==
    Append(fs, [module |-> func.module_idx,
                locals |-> [i \in 1..(nparams + Len(func.fun.locals)) |->
                              IF i <= nparams THEN DefaultLocal("I32")
                              ELSE DefaultLocal(func.fun.locals[i - nparams])]])

\* FrameStack::pop
FramePop(fs) == Front(fs)

\* FrameStack::current
Current(fs) == Last(fs)

\* Frame::set_local on the current frame
SetLocal(fs, idx, v) ==
    [fs EXCEPT ![Len(fs)].locals[idx + 1] = v]

\* Frame::get_local on the current frame
GetLocal(fs, idx) == Current(fs).locals[idx + 1]

HasLocal(fs, idx) == fs # <<>> /\ idx + 1 \in DOMAIN Current(fs).locals

-----------------------------------------------------------------------------
(* Store and module allocation (exec/store.rs, exec.rs allocate_module) *)

EmptyStore == [funcs |-> <<>>, tables |-> <<>>, mems |-> <<>>, globals |-> <<>>]

NoFunc == [some |-> FALSE, addr |-> 0]

\* vec![0; n]: the length and the bytes written since (all others are 0)
ZeroMem(n) == [len |-> n, bytes |-> <<>>]

MemByte(mem, a) == IF a \in DOMAIN mem.bytes THEN mem.bytes[a] ELSE 0

\* mem[a] = b, a < mem.len; addresses are kept 1-based in bytes' domain
\* through the pair notation a :> b
MemSet(mem, a, b) == [mem EXCEPT !.bytes = (a :> b) @@ @]

\* ConstExpr::from_expr: exactly one instruction, a constant or a global.get
ConstExprFrom(expr) ==
    IF Len(expr) # 1 THEN [kind |-> "None", val |-> VI32(0)]
    ELSE IF expr[1].op = "I32Const" THEN [kind |-> "Const", val |-> VI32(expr[1].arg)]
    ELSE IF expr[1].op = "I64Const" THEN [kind |-> "Const", val |-> VI64(expr[1].arg)]
    ELSE IF expr[1].op = "F32Const" THEN [kind |-> "Const", val |-> VF32(expr[1].arg)]
    ELSE IF expr[1].op = "F64Const" THEN [kind |-> "Const", val |-> VF64(expr[1].arg)]
    ELSE IF expr[1].op = "GlobalGet" THEN [kind |-> "GlobalGet", val |-> VI32(0)]
    ELSE [kind |-> "None", val |-> VI32(0)]

\* the Func imports among the first n imports
RECURSIVE FuncImports(_, _)
FuncImports(imports, n) ==
    IF n = 0 THEN 0
    ELSE FuncImports(imports, n - 1) + (IF imports[n] = "Func" THEN 1 ELSE 0)

\* func_addrs of the new instance: a sentinel per function import, then the
\* store address of each defined function
AllocFuncAddrs(pm, base) ==
    [i \in 1..(FuncImports(pm.imports, Len(pm.imports)) + Len(pm.funs)) |->
        IF i <= FuncImports(pm.imports, Len(pm.imports)) THEN SENTINEL
        ELSE base + (i - FuncImports(pm.imports, Len(pm.imports))) - 1]

\* the function records pushed for the new instance
AllocFuncs(pm, module_idx) ==
    [i \in 1..Len(pm.funs) |-> [module_idx |-> module_idx, fun |-> pm.funs[i]]]

\* the tables pushed: `min` empty slots each
AllocTables(pm) ==
    [i \in 1..Len(pm.tables) |-> [j \in 1..pm.tables[i].min |-> NoFunc]]

\* the memories pushed: min pages of zero bytes each
AllocMems(pm) ==
    [i \in 1..Len(pm.mem_addrs) |-> ZeroMem(pm.mem_addrs[i].min * PAGE_SIZE)]

\* addresses that start again at 0 for every module
AddrsFromZero(base, n) == [i \in 1..n |-> i - 1]

\* store addresses base, base+1, ... for n new entries
AddrsFrom(base, n) == [i \in 1..n |-> base + i - 1]

\* the number of leading globals whose initializer is a constant
RECURSIVE GoodGlobals(_, _)
GoodGlobals(globals, k) ==
    IF k > Len(globals) THEN Len(globals)
    ELSE IF ConstExprFrom(globals[k].expr).kind = "Const"
         THEN GoodGlobals(globals, k + 1)
         ELSE k - 1

AllocGlobals(pm, n) ==
    [i \in 1..n |-> [value |-> ConstExprFrom(pm.globals[i].expr).val,
                     mutable |-> pm.globals[i].mut]]

\* allocate_module: the store and module list it leaves, and how it ended
AllocateModuleRes(pm) ==
    LET module_idx == Len(modules)
        s1 == [store EXCEPT !.funcs = @ \o AllocFuncs(pm, module_idx),
                            !.tables = @ \o AllocTables(pm)]
        s2 == [s1 EXCEPT !.mems = @ \o AllocMems(pm)]
        ng == GoodGlobals(pm.globals, 1)
        s3 == [s2 EXCEPT !.globals = @ \o AllocGlobals(pm, ng)]
        inst == [types |-> pm.types,
                 func_addrs |-> AllocFuncAddrs(pm, Len(store.funcs)),
                 table_addrs |-> AddrsFrom(Len(store.tables), Len(pm.tables)),
                 mem_addrs |-> AddrsFrom(Len(store.mems), Len(pm.mem_addrs)),
                 global_addrs |-> AddrsFrom(Len(store.globals), Len(pm.globals)),
                 exports |-> pm.exports,
                 start |-> pm.start]
    IN  IF Len(pm.mem_addrs) > 1
        THEN [status |-> "assert", store |-> s1, modules |-> modules]
        ELSE IF ng < Len(pm.globals)
        THEN [status |-> IF ConstExprFrom(pm.globals[ng + 1].expr).kind = "GlobalGet"
                         THEN "todo" ELSE "const_expr",
              store |-> s3, modules |-> modules]
        ELSE [status |-> "ok", store |-> s3, modules |-> Append(modules, inst)]

-----------------------------------------------------------------------------
(* Control stack *)

\* (BlockType, Rc<[Instruction]>, u32).  lex is not in the source: it records
\* the lexical depth of the region in its function body (0 for the body), so
\* that properties can name the region a label refers to; no step reads it.
Entry(ty, instrs, cursor, lex) ==
    [ty |-> ty, instrs |-> instrs, cursor |-> cursor, lex |-> lex]

\* next_instr that treats the end of a Block like the end of a Function: the
\* entry stays, its cursor past the end
NextInstrKeepsBlock(i) ==
    IF i = <<>> THEN i
    ELSE LET e == Last(i) IN
         IF e.cursor + 1 >= Len(e.instrs) /\ e.ty = "Loop"
         THEN Append(Front(i), [e EXCEPT !.cursor = 0])
         ELSE Append(Front(i), [e EXCEPT !.cursor = @ + 1])

\* next_instr that ends a Loop the way it ends a Block
NextInstrLoopEnds(i) ==
    IF i = <<>> THEN i
    ELSE LET e == Last(i) IN
         IF e.cursor + 1 >= Len(e.instrs)
         THEN CASE e.ty = "Function" -> Append(Front(i), [e EXCEPT !.cursor = @ + 1])
                [] e.ty = "Block"    -> Front(i)
                [] e.ty = "Loop"     -> Front(i)
         ELSE Append(Front(i), [e EXCEPT !.cursor = @ + 1])

\* Runtime::next_instr
NextInstr(i) ==
    IF i = <<>> THEN i
    ELSE LET e == Last(i) IN
         IF e.cursor + 1 >= Len(e.instrs)
         THEN CASE e.ty = "Function" -> Append(Front(i), [e EXCEPT !.cursor = @ + 1])
                [] e.ty = "Block"    -> Front(i)
                [] e.ty = "Loop"     -> Append(Front(i), [e EXCEPT !.cursor = 0])
         ELSE Append(Front(i), [e EXCEPT !.cursor = @ + 1])

\* call: "Pop blocks of the function"
RECURSIVE PopBlocks(_)
PopBlocks(i) ==
    IF i # <<>> /\ Last(i).ty \in {"Block", "Loop"} THEN PopBlocks(Front(i)) ELSE i

-----------------------------------------------------------------------------
(* call: prologue and epilogue *)

\* argument binding without `.rev()`: local k, k+1, ... from the top of the
\* operand stack
RECURSIVE BindFrom(_, _, _, _)
BindFrom(s, fs, k, n) ==
    IF k = n THEN [status |-> "ok", stack |-> s, frames |-> fs]
    ELSE IF Pop(s).status # "ok"
         THEN [status |-> Pop(s).status, stack |-> s, frames |-> fs]
         ELSE IF ~HasLocal(fs, k)
              THEN [status |-> "index", stack |-> Pop(s).stack, frames |-> fs]
              ELSE BindFrom(Pop(s).stack, SetLocal(fs, k, Pop(s).val), k + 1, n)

BindArgsForward(s, fs, n) == BindFrom(s, fs, 0, n)

\* call: "Set locals for arguments": locals n-1 down to 0 from the top of
\* the operand stack
RECURSIVE BindArgs(_, _, _)
BindArgs(s, fs, n) ==
    IF n = 0 THEN [status |-> "ok", stack |-> s, frames |-> fs]
    ELSE IF Pop(s).status # "ok"
         THEN [status |-> Pop(s).status, stack |-> s, frames |-> fs]
         ELSE IF ~HasLocal(fs, n - 1)
              THEN [status |-> "index", stack |-> Pop(s).stack, frames |-> fs]
              ELSE BindArgs(Pop(s).stack, SetLocal(fs, n - 1, Pop(s).val), n - 1)

\* store address -> position in a store vector, when there is one
ValidAddr(a, vec) == a >= 0 /\ a < Len(vec)

\* a call that pushes a frame before it looks the function up
CallEnterFrameFirst(module_idx, fun_idx) ==
    IF ~ValidAddr(module_idx, modules) \/ ~ValidAddr(fun_idx, modules[module_idx + 1].func_addrs)
    THEN Res("index", stack, Append(frames, [module |-> module_idx, locals |-> <<>>]),
             store, ip)
    ELSE LET m == modules[module_idx + 1]
             fun_addr == m.func_addrs[fun_idx + 1]
         IN  IF ~ValidAddr(fun_addr, store.funcs)
             THEN Res("index", stack,
                      Append(frames, [module |-> module_idx, locals |-> <<>>]), store, ip)
             ELSE LET func == store.funcs[fun_addr + 1]
                      ownTypes == modules[func.module_idx + 1].types
                      nparams == IF ValidAddr(func.fun.ty, ownTypes)
                                 THEN Len(ownTypes[func.fun.ty + 1].args) ELSE 0
                      pushed == FramePush(frames, func, nparams)
                  IN  IF ~ValidAddr(func.fun.ty, m.types)
                      THEN Res("index", stack, pushed, store, ip)
                      ELSE LET fun_arity == Len(m.types[func.fun.ty + 1].args)
                               b == BindArgs(stack, pushed, fun_arity)
                           IN  IF b.status # "ok"
                               THEN Res(b.status, b.stack, b.frames, store, ip)
                               ELSE Res("ok", b.stack, b.frames, store,
                                        Append(ip, Entry("Function", func.fun.expr, 0, 0)))

\* call, up to the push of the Function entry
CallEnter(module_idx, fun_idx) ==
    IF ~ValidAddr(module_idx, modules) \/ ~ValidAddr(fun_idx, modules[module_idx + 1].func_addrs)
    THEN Res("index", stack, frames, store, ip)
    ELSE LET m == modules[module_idx + 1]
             fun_addr == m.func_addrs[fun_idx + 1]
         IN  IF ~ValidAddr(fun_addr, store.funcs)
             THEN Res("index", stack, frames, store, ip)
             ELSE LET func == store.funcs[fun_addr + 1]
                      ownTypes == modules[func.module_idx + 1].types
                      nparams == IF ValidAddr(func.fun.ty, ownTypes)
                                 THEN Len(ownTypes[func.fun.ty + 1].args) ELSE 0
                      pushed == FramePush(frames, func, nparams)
                  IN  IF ~ValidAddr(func.fun.ty, m.types)
                      THEN Res("index", stack, pushed, store, ip)
                      ELSE LET fun_arity == Len(m.types[func.fun.ty + 1].args)
                               b == BindArgs(stack, pushed, fun_arity)
                           IN  IF b.status # "ok"
                               THEN Res(b.status, b.stack, b.frames, store, ip)
                               ELSE Res("ok", b.stack, b.frames, store,
                                        Append(ip, Entry("Function", func.fun.expr, 0, 0)))

\* call, after exec has returned: pop the frame, the blocks, the function
CallExit(s, fs, sto, i) ==
    IF fs = <<>> THEN Res("empty_frames", s, fs, sto, i)
    ELSE IF PopBlocks(i) = <<>>
         THEN Res("unwrap", s, FramePop(fs), sto, PopBlocks(i))
         ELSE Res("ok", s, FramePop(fs), sto, Front(PopBlocks(i)))

-----------------------------------------------------------------------------
(* exec: the instruction arms.  Each arm is a result computed from the     *)
(* current state; a panic keeps what the arm had already changed.          *)

Top == Last(ip)

CurInstr == Top.instrs[Top.cursor + 1]

\* the frame's module, as frames.current().module()
CurrentModule == Current(frames).module

\* the position in Store.mems that the load and store arms index
MemIndex(current_module) == current_module

\* end_addr > mem.len(), end_addr = addr + 4 in usize, addr a u32 kept as i32
EndExceeds(addr, len) == addr < 0 \/ addr > len - 4

\* the four byte writes of the I32Store arm, each bounds-checked by the index
StoreBytes(mem, addr, value) ==
    LET b == ToLeBytes(value)
        m3 == MemSet(MemSet(MemSet(mem, addr, b[1]), addr + 1, b[2]), addr + 2, b[3])
    IN  IF addr + 4 >= mem.len
        THEN [status |-> "index", mem |-> m3]
        ELSE [status |-> "ok", mem |-> MemSet(m3, addr + 4, b[4])]

\* the four byte reads of the I32Load arm
LoadBytes(mem, addr) ==
    << MemByte(mem, addr), MemByte(mem, addr + 1),
       MemByte(mem, addr + 2), MemByte(mem, addr + 3) >>

I32StoreRes(offset) ==
    LET pv == PopI32(stack)
        pa == PopI32(pv.stack)
    IN  IF pv.status # "ok" THEN Res(pv.status, pv.stack, frames, store, ip)
        ELSE IF pa.status # "ok" THEN Res(pa.status, pa.stack, frames, store, ip)
        ELSE IF checked /\ CarryU32(pa.val, offset)
        THEN Res("overflow", pa.stack, frames, store, ip)
        ELSE LET addr == WrapAdd(pa.val, offset)
                 mi == MemIndex(CurrentModule)
             IN  IF ~ValidAddr(mi, store.mems)
                 THEN Res("index", pa.stack, frames, store, ip)
                 ELSE IF EndExceeds(addr, store.mems[mi + 1].len)
                 THEN Res("oob", pa.stack, frames, store, ip)
                 ELSE LET w == StoreBytes(store.mems[mi + 1], addr, pv.val)
                          sto == [store EXCEPT !.mems[mi + 1] = w.mem]
                      IN  IF w.status # "ok"
                          THEN Res(w.status, pa.stack, frames, sto, ip)
                          ELSE Res("ok", pa.stack, frames, sto, NextInstr(ip))

I32LoadRes(offset) ==
    LET pa == PopI32(stack)
    IN  IF pa.status # "ok" THEN Res(pa.status, pa.stack, frames, store, ip)
        ELSE IF checked /\ CarryU32(pa.val, offset)
        THEN Res("overflow", pa.stack, frames, store, ip)
        ELSE LET addr == WrapAdd(pa.val, offset)
                 mi == MemIndex(CurrentModule)
             IN  IF ~ValidAddr(mi, store.mems)
                 THEN Res("index", pa.stack, frames, store, ip)
                 ELSE IF EndExceeds(addr, store.mems[mi + 1].len)
                 THEN Res("oob", pa.stack, frames, store, ip)
                 ELSE Res("ok",
                          PushI32(pa.stack, FromLeBytes(LoadBytes(store.mems[mi + 1], addr))),
                          frames, store, NextInstr(ip))

LocalGetRes(idx) ==
    IF ~HasLocal(frames, idx) THEN Res("index", stack, frames, store, ip)
    ELSE Res("ok", Push(stack, GetLocal(frames, idx)), frames, store, NextInstr(ip))

\* a LocalSet that writes the slot of the frame below the current one
LocalSetResBelow(idx) ==
    LET p == Pop(stack)
    IN  IF p.status # "ok" THEN Res(p.status, p.stack, frames, store, ip)
        ELSE IF ~HasLocal(frames, idx) THEN Res("index", p.stack, frames, store, ip)
        ELSE IF Len(frames) > 1 /\ idx + 1 \in DOMAIN frames[Len(frames) - 1].locals
        THEN Res("ok", p.stack, [frames EXCEPT ![Len(frames) - 1].locals[idx + 1] = p.val],
                 store, NextInstr(ip))
        ELSE Res("ok", p.stack, SetLocal(frames, idx, p.val), store, NextInstr(ip))

LocalSetRes(idx) ==
    LET p == Pop(stack)
    IN  IF p.status # "ok" THEN Res(p.status, p.stack, frames, store, ip)
        ELSE IF ~HasLocal(frames, idx) THEN Res("index", p.stack, frames, store, ip)
        ELSE Res("ok", p.stack, SetLocal(frames, idx, p.val), store, NextInstr(ip))

LocalTeeRes(idx) ==
    LET p == Pop(stack)
    IN  IF p.status # "ok" THEN Res(p.status, p.stack, frames, store, ip)
        ELSE IF ~HasLocal(frames, idx) THEN Res("index", p.stack, frames, store, ip)
        ELSE Res("ok", Push(p.stack, p.val), SetLocal(frames, idx, p.val), store,
                 NextInstr(ip))

\* modules[current_module].global_addrs[idx], then its position in Store.globals
GlobalAddrOk(idx) ==
    /\ ValidAddr(idx, modules[CurrentModule + 1].global_addrs)
    /\ ValidAddr(modules[CurrentModule + 1].global_addrs[idx + 1], store.globals)

\* the local index used as the position in Store.globals
GlobalAddrRaw(idx) == idx

GlobalAddr(idx) == modules[CurrentModule + 1].global_addrs[idx + 1]

GlobalGetRes(idx) ==
    IF ~GlobalAddrOk(idx) THEN Res("index", stack, frames, store, ip)
    ELSE Res("ok", Push(stack, store.globals[GlobalAddr(idx) + 1].value),
             frames, store, NextInstr(ip))

GlobalSetRes(idx) ==
    IF ~ValidAddr(idx, modules[CurrentModule + 1].global_addrs)
    THEN Res("index", stack, frames, store, ip)
    ELSE LET p == Pop(stack)
         IN  IF p.status # "ok" THEN Res(p.status, p.stack, frames, store, ip)
             ELSE IF ~GlobalAddrOk(idx) THEN Res("index", p.stack, frames, store, ip)
             ELSE Res("ok", p.stack, frames,
                      [store EXCEPT !.globals[GlobalAddr(idx) + 1].value = p.val],
                      NextInstr(ip))

\* the four constant arms
ConstRes(v) == Res("ok", Push(stack, v), frames, store, NextInstr(ip))

I32EqzRes ==
    LET p == PopI32(stack)
    IN  IF p.status # "ok" THEN Res(p.status, p.stack, frames, store, ip)
        ELSE Res("ok", PushBool(p.stack, p.val = 0), frames, store, NextInstr(ip))

\* val1 <= val2 on two i32
I32LeURes ==
    LET p2 == PopI32(stack)
        p1 == PopI32(p2.stack)
    IN  IF p2.status # "ok" THEN Res(p2.status, p2.stack, frames, store, ip)
        ELSE IF p1.status # "ok" THEN Res(p1.status, p1.stack, frames, store, ip)
        ELSE Res("ok", PushBool(p1.stack, p1.val <= p2.val), frames, store, NextInstr(ip))

\* val1 - val2 on two i32: panics on overflow in a checked build, wraps otherwise
I32SubRes ==
    LET p2 == PopI32(stack)
        p1 == PopI32(p2.stack)
    IN  IF p2.status # "ok" THEN Res(p2.status, p2.stack, frames, store, ip)
        ELSE IF p1.status # "ok" THEN Res(p1.status, p1.stack, frames, store, ip)
        ELSE IF checked /\ OverflowSubI32(p1.val, p2.val)
        THEN Res("overflow", p1.stack, frames, store, ip)
        ELSE Res("ok", PushI32(p1.stack, WrapSub(p1.val, p2.val)), frames, store,
                 NextInstr(ip))

\* Block arm: bump the current entry, then push the block's entry
BlockRes(instrs) ==
    Res("ok", stack, frames, store, Append(NextInstr(ip), Entry("Block", instrs, 0, Last(ip).lex + 1)))

\* a taken branch that pops lbl_idx entries (`0..lbl_idx`)
BrIfPopExclusive(i, lbl_idx) == DropLast(i, lbl_idx)

\* BrIf arm, taken: `for _ in 0..=lbl_idx { rt.ip.pop(); }`
BrIfPop(i, lbl_idx) == DropLast(i, lbl_idx + 1)

\* a BrIf that pops its condition and never branches
BrIfResNeverTaken(lbl_idx) ==
    LET p == PopI32(stack)
    IN  IF p.status # "ok" THEN Res(p.status, p.stack, frames, store, ip)
        ELSE Res("ok", p.stack, frames, store, NextInstr(ip))

BrIfRes(lbl_idx) ==
    LET p == PopI32(stack)
    IN  IF p.status # "ok" THEN Res(p.status, p.stack, frames, store, ip)
        ELSE IF p.val # 0
        THEN Res("ok", p.stack, frames, store, BrIfPop(ip, lbl_idx))
        ELSE Res("ok", p.stack, frames, store, NextInstr(ip))

-----------------------------------------------------------------------------
(* Parsed modules (parser::Module), as the decoder hands them over *)

FuncType(nargs) == [args |-> [i \in 1..nargs |-> "I32"], results |-> <<>>]

Fun(ty, locals, expr) == [ty |-> ty, locals |-> locals, expr |-> expr]

GlobalI32(init, mut) == [expr |-> <<I32Const(init)>>, mut |-> mut]

NoStart == [some |-> FALSE, idx |-> 0]

ParsedModule(types, funs, mems, globals, imports) ==
    [types |-> types, funs |-> funs, tables |-> <<>>, mem_addrs |-> mems,
     globals |-> globals, imports |-> imports, exports |-> <<>>, start |-> NoStart]

-----------------------------------------------------------------------------
(* The programs the embedder is given.  Each scenario is a set of parsed   *)
(* modules; constants 1..31 in the bodies are markers that show on the     *)
(* operand stack which instructions ran, and in which order.               *)

C(i) == I32Const(i)

T0 == <<FuncType(0), FuncType(1), FuncType(2), FuncType(3)>>

\* the condition of a branch: the function's argument
Cond == LocalGet(0)

\* bodies with one br_if, by nesting shape and label
BrIfShape(shape, lbl) ==
    CASE shape = "d1"     -> <<Block(<<Cond, BrIf(lbl), C(10)>>), C(20)>>
      [] shape = "d1last" -> <<Block(<<Cond, BrIf(lbl), C(10)>>)>>
      [] shape = "d2"     -> <<Block(<<Block(<<Cond, BrIf(lbl), C(10)>>), C(11)>>), C(20)>>
      [] shape = "d2last" -> <<Block(<<C(9), Block(<<Cond, BrIf(lbl), C(10)>>)>>), C(20)>>
      [] shape = "d2only" -> <<Block(<<Block(<<Cond, BrIf(lbl), C(10)>>)>>), C(20)>>
      [] shape = "d3"     -> <<Block(<<Block(<<Block(<<Cond, BrIf(lbl), C(10)>>), C(11)>>),
                                       C(12)>>), C(20)>>
      [] shape = "d3mid"  -> <<Block(<<Block(<<C(8), Block(<<Cond, BrIf(lbl), C(10)>>)>>),
                                       C(12)>>), C(20)>>
      [] shape = "d3last" -> <<Block(<<C(7), Block(<<C(8),
                                       Block(<<Cond, BrIf(lbl), C(10)>>)>>)>>), C(20)>>

ShapeDepth(shape) ==
    CASE shape \in {"d1", "d1last"} -> 1
      [] shape \in {"d2", "d2last", "d2only"} -> 2
      [] shape \in {"d3", "d3mid", "d3last"} -> 3

Shapes == {"d1", "d1last", "d2", "d2last", "d2only", "d3", "d3mid", "d3last"}

\* function 0 branches; the others call it with a zero or nonzero condition
BrIfModule(shape, lbl) ==
    ParsedModule(T0,
                 << Fun(1, <<>>, BrIfShape(shape, lbl)),
                    Fun(0, <<>>, <<C(0), Call(0), C(30)>>),
                    Fun(0, <<>>, <<C(5), Call(0), C(30)>>),
                    Fun(0, <<>>, <<C(0), C(5), Call(0), C(30)>>),
                    Fun(0, <<>>, <<C(0), C(5), Call(0), Return, C(31)>>),
                    Fun(0, <<>>, <<Block(<<C(5), Call(0), C(31)>>), C(30)>>) >>,
                 <<>>, <<>>, <<>>)

\* every shape with every label that stays inside the function
BrIfScenarios ==
    { {BrIfModule(p[1], p[2])} :
        p \in {q \in Shapes \X (0..2) : q[2] < ShapeDepth(q[1])} }

\* bodies with a `return` inside k nested blocks
ReturnShape(shape) ==
    CASE shape = "r0"     -> <<C(5), Return, C(6)>>
      [] shape = "r1"     -> <<Block(<<C(5), Return, C(6)>>), C(7)>>
      [] shape = "r2"     -> <<Block(<<Block(<<C(5), Return, C(6)>>), C(7)>>), C(8)>>
      [] shape = "r2last" -> <<Block(<<C(4), Block(<<C(5), Return, C(6)>>)>>), C(8)>>

ReturnShapes == {"r0", "r1", "r2", "r2last"}

ReturnModule(shape) ==
    ParsedModule(T0,
                 << Fun(0, <<>>, ReturnShape(shape)),
                    Fun(0, <<>>, <<Call(0), C(30)>>),
                    Fun(0, <<>>, <<Block(<<Call(0), C(31)>>), C(30)>>),
                    Fun(0, <<>>, <<Block(<<C(29), Call(0)>>), C(30)>>) >>,
                 <<>>, <<>>, <<>>)

ReturnScenarios == { {ReturnModule(shape)} : shape \in ReturnShapes }

\* a block [A, B] followed by trailing code
BlockAB(a, b, t) == <<Block(<<C(a), C(b)>>), C(t)>>

BlockModule ==
    ParsedModule(T0,
                 << Fun(0, <<>>, BlockAB(1, 2, 3)),
                    Fun(0, <<>>, <<C(21), Call(0), C(30)>>),
                    Fun(0, <<>>, <<Block(BlockAB(1, 2, 3)), C(4)>>),
                    Fun(0, <<>>, <<Block(<<C(1), C(2)>>)>>),
                    Fun(0, <<>>, <<Block(<<>>), C(3)>>),
                    Fun(0, <<>>, BlockAB(2, 2, 2)) >>,
                 <<>>, <<>>, <<>>)

\* callees of arity 1, 2, 3 (with one declared local each) and their callers
ArgModule ==
    ParsedModule(T0,
                 << Fun(1, <<"I32">>, <<LocalGet(0), LocalSet(1)>>),
                    Fun(2, <<"I64">>, <<LocalGet(1), LocalTee(0)>>),
                    Fun(3, <<"I32">>, <<LocalGet(2), LocalGet(0)>>),
                    Fun(0, <<>>, <<C(7), C(11), C(12), C(13), Call(0)>>),
                    Fun(0, <<>>, <<C(7), C(11), C(12), C(13), Call(1)>>),
                    Fun(0, <<>>, <<C(7), C(11), C(12), C(13), Call(2)>>),
                    Fun(0, <<>>, <<I64Const(9), C(11), F32Const(3), Call(2), F64Const(4)>>),
                    Fun(0, <<>>, <<C(7), Call(1)>>) >>,
                 <<>>, <<>>, <<>>)

\* one memory of `pages` pages; store v at a+off and load it back
MemModule(pages, a, off, v) ==
    ParsedModule(T0,
                 << Fun(0, <<>>, <<C(a), C(v), I32Store(off), C(a), I32Load(off)>>),
                    Fun(0, <<>>, <<C(a), I32Load(off)>>) >>,
                 <<[min |-> pages]>>, <<>>, <<>>)

\* no memory, yet a store and a load
NoMemModule ==
    ParsedModule(T0,
                 << Fun(0, <<>>, <<C(0), C(-1), I32Store(0)>>),
                    Fun(0, <<>>, <<C(0), I32Load(0)>>),
                    Fun(0, <<>>, <<C(1)>>) >>,
                 <<>>, <<>>, <<>>)

MemAddrs ==
    {0, 4, PAGE_SIZE - 5, PAGE_SIZE - 4, PAGE_SIZE - 3, PAGE_SIZE, MaxI32, MinI32, -1, -4}

MemOffsets == {0, 1, 4, -1}

MemValues == {0, 42, -1, 16909060, MinI32}

MemScenarios ==
    { {MemModule(1, a, off, v)} : a \in MemAddrs, off \in MemOffsets, v \in MemValues }
    \cup { {MemModule(0, 0, 0, 42)}, {MemModule(2, PAGE_SIZE - 2, 0, -1)} }
    \cup { {NoMemModule, MemModule(1, 0, 0, v)} : v \in {42, -1} }
    \cup { {MemModule(1, 0, 0, 42), MemModule(1, 0, 0, 16909060)} }

\* globals: set and get the mutable one, read the other
GlobModule(init) ==
    ParsedModule(T0,
                 << Fun(0, <<>>, <<C(init + 40), GlobalSet(0), GlobalGet(0)>>),
                    Fun(0, <<>>, <<GlobalGet(0), GlobalGet(1)>>) >>,
                 <<>>, <<GlobalI32(init, TRUE), GlobalI32(init + 1, FALSE)>>, <<>>)

GlobScenarios == { {GlobModule(0), GlobModule(7)} }
\* callers that keep values in their own locals across a call of a callee
\* that writes the same slots; function 2 branches out of two blocks
LocalsModule ==
    ParsedModule(T0,
                 << Fun(1, <<"I32">>, <<C(21), LocalSet(0), C(22), LocalTee(1), LocalGet(0)>>),
                    Fun(0, <<"I32", "I32">>,
                        <<C(5), LocalSet(0), C(6), LocalSet(1), C(7), Call(0),
                          LocalGet(0), LocalGet(1)>>),
                    Fun(1, <<>>, BrIfShape("d2only", 1)),
                    Fun(0, <<"I32">>,
                        <<C(5), LocalSet(0), C(0), C(9), Call(2), LocalGet(0)>>) >>,
                 <<>>, <<>>, <<>>)

\* the recursive counter, and the comparison and subtraction arms
Counter ==
    <<Block(<<LocalGet(0), I32Eqz, BrIf(0), LocalGet(0), C(1), I32Sub, Call(0)>>)>>

\* function 0 is the recursive counter; function n + 1 calls it with count n,
\* for every n the depth bound leaves room for
CounterModule ==
    ParsedModule(T0,
                 <<Fun(1, <<>>, Counter)>>
                    \o [k \in 1..(MaxDepth - 1) |-> Fun(0, <<>>, <<C(k - 1), Call(0)>>)],
                 <<>>, <<>>, <<>>)

ArithModule(a, b) ==
    ParsedModule(T0,
                 << Fun(1, <<>>, Counter),
                    Fun(0, <<>>, <<C(2), Call(0)>>),
                    Fun(0, <<>>, <<C(a), C(b), I32Le_u>>),
                    Fun(0, <<>>, <<C(a), C(b), I32Sub>>) >>,
                 <<>>, <<>>, <<>>)

ArithScenarios == { {ArithModule(a, b)} : a \in {0, -1, MinI32}, b \in {1, MaxI32} }

\* what the engine refuses: loop, call_indirect, an instruction outside the
\* table, an unresolved import, a call out of range, bad initializers
RefusedModule ==
    [ParsedModule(T0,
                 << Fun(0, <<>>, <<C(1), Loop(<<C(2)>>), C(3)>>),
                    Fun(0, <<>>, <<C(1), CallIndirect(0), C(3)>>),
                    Fun(0, <<>>, <<C(1), Nop, C(3)>>),
                    Fun(0, <<>>, <<C(1), Call(0), C(3)>>),
                    Fun(0, <<>>, <<C(1), Call(9), C(3)>>),
                    Fun(0, <<>>, <<C(1), I32Add>>) >>,
                 <<>>, <<>>, <<"Func", "Global">>)
     EXCEPT !.tables = <<[min |-> 2]>>]

BadGlobalModule(expr) ==
    ParsedModule(T0, <<Fun(0, <<>>, <<C(1)>>)>>, <<>>,
                 <<GlobalI32(1, TRUE), [expr |-> expr, mut |-> TRUE]>>, <<>>)

TwoMemModule ==
    ParsedModule(T0, <<Fun(0, <<>>, <<C(1)>>)>>, <<[min |-> 1], [min |-> 1]>>, <<>>, <<>>)

RefusedScenarios ==
    { {RefusedModule},
      {BadGlobalModule(<<GlobalGet(0)>>), BadGlobalModule(<<C(1), C(2)>>)},
      {TwoMemModule} }

Scenarios ==
    BrIfScenarios \cup ReturnScenarios \cup {{BlockModule}} \cup {{ArgModule}}
    \cup {{LocalsModule}} \cup {{CounterModule}}
    \cup MemScenarios \cup GlobScenarios \cup ArithScenarios \cup RefusedScenarios

-----------------------------------------------------------------------------
(* The state machine *)

Init ==
    /\ store = EmptyStore
    /\ stack = <<>>
    /\ frames = <<>>
    /\ modules = <<>>
    /\ ip = <<>>
    /\ act = <<>>
    /\ status = "ok"
    /\ checked \in BOOLEAN
    /\ avail \in Scenarios
    /\ ops = 0

Idle == status = "ok" /\ act = <<>>

\* the innermost exec is at the head of its loop
InExec == status = "ok" /\ act # <<>> /\ Last(act).pc = "exec"

\* ... with an instruction to dispatch
Dispatching == InExec /\ ip # <<>> /\ Top.cursor < Len(Top.instrs)

At(op) == Dispatching /\ CurInstr.op = op

Commit(r) ==
    /\ status' = r.status
    /\ stack' = r.stack
    /\ frames' = r.frames
    /\ store' = r.store
    /\ ip' = r.ip

\* an arm that stays in the dispatch loop
Arm(r) == Commit(r) /\ UNCHANGED <<modules, act, checked, avail, ops>>

Activation(module_idx, fun_idx) ==
    [module_idx |-> module_idx, fun_idx |-> fun_idx, pc |-> "exec", via |-> "",
     frames0 |-> frames, ip0 |-> ip, stack0 |-> stack]

\* exec has returned to call with the control stack i, by way of `via` (the
\* end of the region, a `return`, an empty control stack): call's epilogue
\* runs and call returns
Finish(i, via) ==
    /\ Commit(CallExit(stack, frames, store, i))
    /\ act' = IF CallExit(stack, frames, store, i).status = "ok"
              THEN [act EXCEPT ![Len(act)].pc = "returned", ![Len(act)].via = via]
              ELSE act
    /\ UNCHANGED <<modules, checked, avail, ops>>

\* the embedder allocates one of its parsed modules
AllocateModule ==
    /\ Idle /\ ops < MaxHostOps
    /\ \E pm \in avail :
         LET r == AllocateModuleRes(pm) IN
         /\ store' = r.store
         /\ modules' = r.modules
         /\ status' = r.status
    /\ ops' = ops + 1
    /\ UNCHANGED <<stack, frames, ip, act, checked, avail>>

\* the embedder calls function fun_idx of module module_idx
HostCall ==
    /\ Idle /\ ops < MaxHostOps
    /\ \E module_idx \in 0..(Len(modules) - 1) :
       \E fun_idx \in 0..(Len(modules[module_idx + 1].func_addrs) - 1) :
         LET r == CallEnter(module_idx, fun_idx) IN
         /\ Commit(r)
         /\ act' = IF r.status = "ok" THEN <<Activation(module_idx, fun_idx)>> ELSE act
    /\ ops' = ops + 1
    /\ UNCHANGED <<modules, checked, avail>>

ExecI32Store == At("I32Store") /\ Arm(I32StoreRes(CurInstr.arg))

ExecI32Load == At("I32Load") /\ Arm(I32LoadRes(CurInstr.arg))

ExecLocalGet == At("LocalGet") /\ Arm(LocalGetRes(CurInstr.arg))

ExecLocalSet == At("LocalSet") /\ Arm(LocalSetRes(CurInstr.arg))

ExecLocalTee == At("LocalTee") /\ Arm(LocalTeeRes(CurInstr.arg))

ExecGlobalGet == At("GlobalGet") /\ Arm(GlobalGetRes(CurInstr.arg))

ExecGlobalSet == At("GlobalSet") /\ Arm(GlobalSetRes(CurInstr.arg))

ExecI32Const == At("I32Const") /\ Arm(ConstRes(VI32(CurInstr.arg)))

ExecI64Const == At("I64Const") /\ Arm(ConstRes(VI64(CurInstr.arg)))

ExecF32Const == At("F32Const") /\ Arm(ConstRes(VF32(CurInstr.arg)))

ExecF64Const == At("F64Const") /\ Arm(ConstRes(VF64(CurInstr.arg)))

ExecI32Eqz == At("I32Eqz") /\ Arm(I32EqzRes)

ExecI32Le_u == At("I32Le_u") /\ Arm(I32LeURes)

ExecI32Sub == At("I32Sub") /\ Arm(I32SubRes)

\* Call arm, up to the nested exec; its next_instr is taken in CallReturn
ExecCall ==
    /\ At("Call") /\ Len(act) < MaxDepth
    /\ LET r == CallEnter(CurrentModule, CurInstr.arg) IN
       /\ Commit(r)
       /\ act' = IF r.status = "ok"
                 THEN Append(act, Activation(CurrentModule, CurInstr.arg)) ELSE act
    /\ UNCHANGED <<modules, checked, avail, ops>>

\* CallIndirect arm: todo!()
ExecCallIndirect ==
    At("CallIndirect") /\ Arm(Res("todo", stack, frames, store, ip))

\* Return arm: break out of the loop; exec returns to call
ExecReturn == At("Return") /\ Finish(ip, "return")

ExecBlock == At("Block") /\ Arm(BlockRes(CurInstr.instrs))

\* a Loop arm that steps over the instruction
ExecLoopSkips == At("Loop") /\ Arm(Res("ok", stack, frames, store, NextInstr(ip)))

\* Loop arm: todo!()
ExecLoop == At("Loop") /\ Arm(Res("todo", stack, frames, store, ip))

ExecBrIf == At("BrIf") /\ Arm(BrIfRes(CurInstr.arg))

Handled ==
    {"I32Store", "I32Load", "LocalGet", "LocalSet", "LocalTee", "GlobalGet",
     "GlobalSet", "I32Const", "I64Const", "F32Const", "F64Const", "I32Eqz",
     "I32Le_u", "I32Sub", "Call", "CallIndirect", "Return", "Block", "Loop", "BrIf"}

\* the catch-all arm: todo!("unhandled instruction")
ExecUnhandled ==
    /\ Dispatching /\ CurInstr.op \notin Handled
    /\ Arm(Res("todo", stack, frames, store, ip))

\* the head of the loop finds the top entry's cursor at the end of its
\* instructions: next_instr, and exec returns (a cursor past the end would
\* index out of the block)
ExecEnd ==
    /\ InExec /\ ip # <<>> /\ Top.cursor >= Len(Top.instrs)
    /\ IF Top.cursor = Len(Top.instrs)
       THEN Finish(NextInstr(ip), "end")
       ELSE Arm(Res("index", stack, frames, store, ip))

\* the head of the loop finds the control stack empty: exec returns
ExecIpEmpty == InExec /\ ip = <<>> /\ Finish(ip, "empty")

\* call has returned: to the embedder, or to the Call arm, which bumps the
\* cursor of the entry on top
CallReturn ==
    /\ status = "ok" /\ act # <<>> /\ Last(act).pc = "returned"
    /\ act' = Front(act)
    /\ ip' = IF Len(act) > 1 THEN NextInstr(ip) ELSE ip
    /\ UNCHANGED <<store, stack, frames, modules, status, checked, avail, ops>>

Next ==
    \/ AllocateModule
    \/ HostCall
    \/ ExecI32Store
    \/ ExecI32Load
    \/ ExecLocalGet
    \/ ExecLocalSet
    \/ ExecLocalTee
    \/ ExecGlobalGet
    \/ ExecGlobalSet
    \/ ExecI32Const
    \/ ExecI64Const
    \/ ExecF32Const
    \/ ExecF64Const
    \/ ExecI32Eqz
    \/ ExecI32Le_u
    \/ ExecI32Sub
    \/ ExecCall
    \/ ExecCallIndirect
    \/ ExecReturn
    \/ ExecBlock
    \/ ExecLoop
    \/ ExecBrIf
    \/ ExecUnhandled
    \/ ExecEnd
    \/ ExecIpEmpty
    \/ CallReturn

Spec == Init /\ [][Next]_vars

\* one step of the interpreter: call and exec are sequential code, which goes
\* on until it returns to the embedder or panics
Run ==
    \/ ExecI32Store \/ ExecI32Load \/ ExecLocalGet \/ ExecLocalSet \/ ExecLocalTee
    \/ ExecGlobalGet \/ ExecGlobalSet \/ ExecI32Const \/ ExecI64Const
    \/ ExecF32Const \/ ExecF64Const \/ ExecI32Eqz \/ ExecI32Le_u \/ ExecI32Sub
    \/ ExecCall \/ ExecCallIndirect \/ ExecReturn \/ ExecBlock \/ ExecLoop
    \/ ExecBrIf \/ ExecUnhandled \/ ExecEnd \/ ExecIpEmpty \/ CallReturn

\* the embedder may stop calling; a call it made runs on
FairSpec == Spec /\ WF_vars(Run)

-----------------------------------------------------------------------------
(* The operand stack on its own: any sequence of pushes and pops *)

StackValues == {VI32(0), VI32(-1), VI32(MaxI32), VI64(7), VF32(3), VF64(4)}

\* Stack::default, in a runtime that holds nothing else
StackInit ==
    /\ store = EmptyStore
    /\ stack = <<>>
    /\ frames = <<>>
    /\ modules = <<>>
    /\ ip = <<>>
    /\ act = <<>>
    /\ status = "ok"
    /\ checked \in BOOLEAN
    /\ avail = {}
    /\ ops = 0

StackPush ==
    /\ status = "ok" /\ Len(stack) < MaxStack
    /\ \E v \in StackValues : stack' = Push(stack, v)
    /\ UNCHANGED <<store, frames, modules, ip, act, status, checked, avail, ops>>

StackPushI32 ==
    /\ status = "ok" /\ Len(stack) < MaxStack
    /\ \E i \in {0, 1, MinI32} : stack' = PushI32(stack, i)
    /\ UNCHANGED <<store, frames, modules, ip, act, status, checked, avail, ops>>

StackPushBool ==
    /\ status = "ok" /\ Len(stack) < MaxStack
    /\ \E b \in BOOLEAN : stack' = PushBool(stack, b)
    /\ UNCHANGED <<store, frames, modules, ip, act, status, checked, avail, ops>>

StackPop ==
    /\ status = "ok"
    /\ stack' = Pop(stack).stack
    /\ status' = Pop(stack).status
    /\ UNCHANGED <<store, frames, modules, ip, act, checked, avail, ops>>

StackPopI32 ==
    /\ status = "ok"
    /\ stack' = PopI32(stack).stack
    /\ status' = PopI32(stack).status
    /\ UNCHANGED <<store, frames, modules, ip, act, checked, avail, ops>>

StackNext ==
    \/ StackPush
    \/ StackPushI32
    \/ StackPushBool
    \/ StackPop
    \/ StackPopI32

StackSpec == StackInit /\ [][StackNext]_vars

-----------------------------------------------------------------------------
(* The control stack with Loop entries.  The Loop arm of exec is todo!(), so *)
(* no run that starts from an empty runtime has a Loop entry; next_instr,    *)
(* the BrIf arm and call's teardown are written for control stacks of all    *)
(* three kinds.  Here exec is started inside a loop: the control stack is    *)
(* the one with the Function entry past the loop instruction and the Loop    *)
(* entry (and the Block or Loop around it) at its first instruction.         *)

\* bodies of a function of arity 1 with a loop; the loop body changes local 0
\* and leaves the operand stack as it was
LoopShape(shape) ==
    CASE shape = "la" -> <<Loop(<<Cond, BrIf(0), C(1), LocalSet(0)>>), C(20)>>
      [] shape = "lb" -> <<Loop(<<Block(<<Cond, BrIf(1), C(1), LocalSet(0)>>),
                                   C(2), LocalSet(0)>>), C(20)>>
      [] shape = "lc" -> <<Block(<<Loop(<<Cond, BrIf(1), C(1), LocalSet(0)>>), C(11)>>),
                           C(20)>>
      [] shape = "ld" -> <<Loop(<<Loop(<<Cond, BrIf(1), C(1), LocalSet(0)>>),
                                   C(3), LocalSet(0)>>), C(20)>>
      [] shape = "le" -> <<Loop(<<Loop(<<Cond, BrIf(0), C(1), LocalSet(0)>>),
                                   C(3), LocalSet(0)>>), C(20)>>

LoopShapes == {"la", "lb", "lc", "ld", "le"}

\* the control stack of a call of the body, at the first instruction of its
\* (inner) loop
InsideLoop(shape) ==
    LET body == LoopShape(shape) IN
    IF shape \in {"la", "lb"}
    THEN <<Entry("Function", body, 1, 0), Entry("Loop", body[1].instrs, 0, 1)>>
    ELSE <<Entry("Function", body, 1, 0),
           Entry(body[1].op, body[1].instrs, 1, 1),
           Entry("Loop", body[1].instrs[1].instrs, 0, 2)>>

LoopModule(shape) ==
    ParsedModule(T0, <<Fun(1, <<>>, LoopShape(shape))>>, <<>>, <<>>, <<>>)

\* a runtime with one instance, in the call of its function with argument c
LoopInit ==
    \E shape \in LoopShapes, c \in {0, 5} :
        /\ store = [EmptyStore EXCEPT !.funcs = AllocFuncs(LoopModule(shape), 0)]
        /\ modules = <<[types |-> T0, func_addrs |-> <<0>>, table_addrs |-> <<>>,
                        mem_addrs |-> <<>>, global_addrs |-> <<>>,
                        exports |-> <<>>, start |-> NoStart]>>
        /\ stack = <<>>
        /\ frames = <<[module |-> 0, locals |-> <<VI32(c)>>]>>
        /\ ip = InsideLoop(shape)
        /\ act = <<[module_idx |-> 0, fun_idx |-> 0, pc |-> "exec", via |-> "",
                    frames0 |-> <<>>, ip0 |-> <<>>, stack0 |-> <<VI32(c)>>]>>
        /\ status = "ok"
        /\ checked \in BOOLEAN
        /\ avail = {LoopModule(shape)}
        /\ ops = 2

LoopNext ==
    \/ ExecLocalGet
    \/ ExecLocalSet
    \/ ExecI32Const
    \/ ExecBlock
    \/ ExecLoop
    \/ ExecBrIf
    \/ ExecEnd
    \/ CallReturn

LoopSpec == LoopInit /\ [][LoopNext]_vars

-----------------------------------------------------------------------------
(* Properties *)

\* the innermost call has just returned
Returned == status = "ok" /\ act # <<>> /\ Last(act).pc = "returned"

\* C1: whenever a call returns, the frame stack and the control stack are
\* what they were when the call was entered.
C1_CallRestoresStacks ==
    Returned => frames = Last(act).frames0 /\ ip = Last(act).ip0

\* the function an activation runs
FunOf(a) == store.funcs[modules[a.module_idx + 1].func_addrs[a.fun_idx + 1] + 1]

\* the control stack of the innermost call at its entry, and its height
Base == Len(Last(act).ip0)

\* the dispatched BrIf pops a nonzero condition
TakenBrIf ==
    At("BrIf") /\ PopI32(stack).status = "ok" /\ PopI32(stack).val # 0

\* ... inside at least lbl+1 blocks of the function the innermost call runs
BrIfInside ==
    /\ Len(ip) > Base
    /\ ip[Base + 1].ty = "Function"
    /\ Top.lex >= CurInstr.arg + 1

\* the control stack i cut back to the innermost entry, above position base,
\* of lexical depth at most t
BranchTarget(i, base, t) ==
    LET keep == {k \in (base + 1)..Len(i) : i[k].lex <= t}
    IN  SubSeq(i, 1, CHOOSE k \in keep : \A j \in keep : j <= k)

\* C2 (as claimed): a taken br_if lbl inside at least lbl+1 blocks leaves
\* exactly the regions that enclose the (lbl+1)-th innermost enclosing block,
\* whatever the nesting shape, and never removes the function's own entry or
\* an entry of a caller.
C2_BranchLeavesExactlyLabelRegions ==
    [][ (TakenBrIf /\ BrIfInside) =>
            /\ ip' = BranchTarget(ip, Base, Top.lex - CurInstr.arg - 1)
            /\ Len(ip') > Base
            /\ SubSeq(ip', 1, Base + 1) = SubSeq(ip, 1, Base + 1) ]_vars

\* the module instance of the current frame
CurInst == modules[CurrentModule + 1]

\* the operands of the dispatched load or store are on the stack
MemOperandsOk ==
    \/ At("I32Load") /\ PopI32(stack).status = "ok"
    \/ /\ At("I32Store") /\ PopI32(stack).status = "ok"
       /\ PopI32(PopI32(stack).stack).status = "ok"

\* the address operand of the dispatched load or store
MemOperandAddr ==
    IF CurInstr.op = "I32Load" THEN PopI32(stack).val
    ELSE PopI32(PopI32(stack).stack).val

\* the value operand of the dispatched store
MemOperandValue == PopI32(stack).val

\* C3 (as claimed): a load or store of a function of module m acts on the
\* memory at store address modules[m].mem_addrs[0]: a store changes no other
\* memory, a load pushes the bytes of that memory, and the access never
\* indexes Store.mems by the module index.
C3_MemoryThroughAddressTable ==
    [][ MemOperandsOk =>
          /\ (At("I32Store") /\ status' = "ok") =>
                /\ CurInst.mem_addrs # <<>>
                /\ \A j \in 1..Len(store.mems) :
                      j - 1 # CurInst.mem_addrs[1] => store'.mems[j] = store.mems[j]
          /\ (At("I32Load") /\ status' = "ok") =>
                /\ CurInst.mem_addrs # <<>>
                /\ Last(stack').val =
                      FromLeBytes(LoadBytes(store.mems[CurInst.mem_addrs[1] + 1],
                                            WrapAdd(MemOperandAddr, CurInstr.arg)))
          /\ (At("I32Load") /\ CurInst.mem_addrs # <<>>) => status' # "index" ]_vars

\* the span [addr+offset, addr+offset+4) of two u32 (kept as i32), not
\* wrapped, lies inside len bytes
InBounds(addr, offset, len) ==
    /\ addr >= 0 /\ offset >= 0
    /\ addr <= MaxI32 - offset
    /\ addr + offset <= len - 4

\* a body that stores v at a+off and loads it back
IsStoreLoad(body) ==
    /\ Len(body) = 5
    /\ [k \in 1..5 |-> body[k].op] =
           <<"I32Const", "I32Const", "I32Store", "I32Const", "I32Load">>
    /\ body[4].arg = body[1].arg
    /\ body[5].arg = body[3].arg

\* C4 (as claimed): i32.store of v followed by i32.load at the same address
\* and offset, the span inside the memory, pushes exactly v.
C4_StoreLoadRoundTrip ==
    (/\ Returned
     /\ IsStoreLoad(FunOf(Last(act)).fun.expr)
     /\ modules[Last(act).module_idx + 1].mem_addrs # <<>>)
    => LET body == FunOf(Last(act)).fun.expr
           mem == store.mems[modules[Last(act).module_idx + 1].mem_addrs[1] + 1]
       IN  InBounds(body[1].arg, body[3].arg, mem.len)
              => stack = Append(Last(act).stack0, VI32(body[2].arg))

\* the memory the dispatched load or store indexes
AccessedMem == store.mems[MemIndex(CurrentModule) + 1]

\* C5 (as claimed): a store of v at a = addr+offset sets bytes a..a+3 to the
\* little-endian bytes of v and changes no other byte (a+4 in particular) of
\* that memory, and no other memory.
C5_StoreWritesFourBytes ==
    [][ (/\ At("I32Store") /\ MemOperandsOk /\ status' = "ok"
         /\ InBounds(MemOperandAddr, CurInstr.arg, AccessedMem.len)) =>
          LET a == MemOperandAddr + CurInstr.arg
              mi == MemIndex(CurrentModule) + 1
              old == store.mems[mi]
              new == store'.mems[mi]
          IN  /\ \A k \in 0..3 : MemByte(new, a + k) = ToLeBytes(MemOperandValue)[k + 1]
              /\ \A x \in (DOMAIN old.bytes \cup DOMAIN new.bytes \cup {a + 4}) \ (a..(a + 3)) :
                    MemByte(new, x) = MemByte(old, x)
              /\ new.len = old.len
              /\ \A j \in 1..Len(store.mems) : j # mi => store'.mems[j] = store.mems[j]
      ]_vars

\* C6 (as claimed): a load or store whose span exceeds the memory fails with
\* the out-of-bounds error and modifies nothing; one whose span lies inside
\* (the last one at length-4 included) completes.
C6_BoundsCheck ==
    [][ (MemOperandsOk /\ ValidAddr(MemIndex(CurrentModule), store.mems)) =>
          IF InBounds(MemOperandAddr, CurInstr.arg, AccessedMem.len)
          THEN status' = "ok"
          ELSE status' = "oob" /\ store' = store ]_vars

\* the part of the operand stack and of the control stack that the innermost
\* call has put on top of what it found
RelStack == SubSeq(stack, Len(Last(act).stack0) + 1, Len(stack))

RelIp == SubSeq(ip, Base + 1, Len(ip))

KeepsWhatItFound ==
    /\ Len(stack) >= Len(Last(act).stack0)
    /\ SubSeq(stack, 1, Len(Last(act).stack0)) = Last(act).stack0
    /\ Len(ip) >= Base
    /\ SubSeq(ip, 1, Base) = Last(act).ip0

\* kinds and cursors of control entries
Shape(i) == [k \in 1..Len(i) |-> <<i[k].ty, i[k].cursor>>]

Marks(ms) == [k \in 1..Len(ms) |-> VI32(ms[k])]

IsConst(instr) == instr.op = "I32Const"

\* a body `block [A, B]; T` of three markers
IsBlockAB(body) ==
    /\ Len(body) = 2 /\ body[1].op = "Block" /\ IsConst(body[2])
    /\ Len(body[1].instrs) = 2
    /\ IsConst(body[1].instrs[1]) /\ IsConst(body[1].instrs[2])

\* a body `block [ block [A, B]; T ]; U`: the enclosing region is a block
IsNestedBlockAB(body) ==
    /\ Len(body) = 2 /\ body[1].op = "Block" /\ IsConst(body[2])
    /\ IsBlockAB(body[1].instrs)

\* where the call running `block [A, B]; T` can be: the markers pushed so far
\* against the control entries it holds
BlockABTable(a, b, t) ==
    IF Last(act).pc = "returned"
    THEN RelStack = Marks(<<a, b, t>>) /\ RelIp = <<>>
    ELSE <<RelStack, Shape(RelIp)>> \in
           { <<Marks(<<>>),        <<<<"Function", 0>>>> >>,
             <<Marks(<<>>),        <<<<"Function", 1>>, <<"Block", 0>>>> >>,
             <<Marks(<<a>>),       <<<<"Function", 1>>, <<"Block", 1>>>> >>,
             <<Marks(<<a, b>>),    <<<<"Function", 1>>>> >>,
             <<Marks(<<a, b, t>>), <<<<"Function", 2>>>> >> }

NestedBlockABTable(a, b, t, u) ==
    IF Last(act).pc = "returned"
    THEN RelStack = Marks(<<a, b, t, u>>) /\ RelIp = <<>>
    ELSE <<RelStack, Shape(RelIp)>> \in
           { <<Marks(<<>>),           <<<<"Function", 0>>>> >>,
             <<Marks(<<>>),           <<<<"Function", 1>>, <<"Block", 0>>>> >>,
             <<Marks(<<>>),           <<<<"Function", 1>>, <<"Block", 1>>, <<"Block", 0>>>> >>,
             <<Marks(<<a>>),          <<<<"Function", 1>>, <<"Block", 1>>, <<"Block", 1>>>> >>,
             <<Marks(<<a, b>>),       <<<<"Function", 1>>, <<"Block", 1>>>> >>,
             <<Marks(<<a, b, t>>),    <<<<"Function", 1>>>> >>,
             <<Marks(<<a, b, t, u>>), <<<<"Function", 2>>>> >> }

C7_Table ==
    (status = "ok" /\ act # <<>>) =>
        LET body == FunOf(Last(act)).fun.expr IN
        /\ IsBlockAB(body) =>
              /\ KeepsWhatItFound
              /\ BlockABTable(body[1].instrs[1].arg, body[1].instrs[2].arg, body[2].arg)
        /\ IsNestedBlockAB(body) =>
              /\ KeepsWhatItFound
              /\ NestedBlockABTable(body[1].instrs[1].instrs[1].arg,
                                    body[1].instrs[1].instrs[2].arg,
                                    body[1].instrs[2].arg, body[2].arg)

\* C7: a block [A, B] followed by trailing code runs A, then B, then the
\* trailing code, each once (the markers appear on the operand stack in that
\* order, once each); no Block entry is left once B has run; and entering a
\* block leaves the operand stack as it was.
C7_BlockFallsThrough ==
    /\ []C7_Table
    /\ [][At("Block") => (stack' = stack /\ status' = "ok")]_vars

\* the call of `block [1, 2]; 3` from another function has returned with the
\* three markers in order
C7_Witness ==
    /\ Returned /\ Len(act) = 2
    /\ IsBlockAB(FunOf(Last(act)).fun.expr)
    /\ stack = Last(act).stack0 \o Marks(<<1, 2, 3>>)
    /\ ip = Last(act).ip0

\* the dispatched instruction is br_if 0 in a block that sits directly in the
\* body of the function the innermost call runs
BrIf0InSingleBlock ==
    /\ At("BrIf") /\ CurInstr.arg = 0 /\ PopI32(stack).status = "ok"
    /\ Len(ip) = Base + 2
    /\ ip[Base + 1].ty = "Function" /\ Top.ty = "Block" /\ Top.lex = 1

\* a body `block [cond, br_if 0, X]` followed by at most one marker
IsBrIf0Body(body) ==
    /\ Len(body) \in {1, 2} /\ body[1].op = "Block"
    /\ Len(body[1].instrs) = 3
    /\ body[1].instrs = <<Cond, BrIf(0), body[1].instrs[3]>>
    /\ IsConst(body[1].instrs[3])
    /\ Len(body) = 2 => IsConst(body[2])

Trailing(body) == IF Len(body) = 2 THEN <<VI32(body[2].arg)>> ELSE <<>>

C8_Returned ==
    (Returned /\ IsBrIf0Body(FunOf(Last(act)).fun.expr)) =>
        LET body == FunOf(Last(act)).fun.expr
            cond == Last(Last(act).stack0).val
        IN  stack = Front(Last(act).stack0)
                    \o (IF cond # 0 THEN <<>> ELSE <<VI32(body[1].instrs[3].arg)>>)
                    \o Trailing(body)

\* C8: br_if 0 in a single block directly in a function body.  Nonzero: the
\* block's entry is dropped, so the rest of the block does not run and the
\* function's entry, whose cursor is just past that block, is on top (the
\* function finishes when the block was last).  Zero: only the condition is
\* popped and the block goes on with its next instruction.
C8_BrIfZeroSingleBlock ==
    /\ []C8_Returned
    /\ [][ BrIf0InSingleBlock =>
             /\ status' = "ok" /\ stack' = Front(stack)
             /\ frames' = frames /\ store' = store
             /\ IF Last(stack).val # 0
                THEN /\ ip' = Front(ip)
                     /\ Last(ip').cursor >= 1
                     /\ Last(ip').instrs[Last(ip').cursor] = Block(Top.instrs)
                ELSE ip' = IF Top.cursor + 1 < Len(Top.instrs)
                           THEN [ip EXCEPT ![Len(ip)].cursor = @ + 1]
                           ELSE Front(ip) ]_vars

\* the call of `block [cond, br_if 0, 10]; 20` has returned after a nonzero
\* condition: the
\* taken branch skipped marker 10 and the trailing marker 20 ran
C8_Witness ==
    /\ Returned /\ Len(act) = 2
    /\ FunOf(Last(act)).fun.expr = BrIfShape("d1", 0)
    /\ Last(Last(act).stack0).val # 0
    /\ stack = Front(Last(act).stack0) \o Marks(<<20>>)

\* C9 (as claimed): a `return` inside k >= 0 blocks stops the dispatch loop
\* at once; call removes the callee's frame, its leftover Block/Loop entries
\* and its Function entry, and nothing else; the caller resumes at the
\* instruction after its call.
C9_ReturnUnwinds ==
    /\ [][ At("Return") =>
             /\ status' = "ok" /\ Last(act').pc = "returned"
             /\ stack' = stack /\ store' = store
             /\ frames' = Front(frames) /\ frames' = Last(act).frames0
             /\ Len(ip) > Base /\ ip[Base + 1].ty = "Function"
             /\ \A k \in (Base + 2)..Len(ip) : ip[k].ty \in {"Block", "Loop"}
             /\ ip' = Last(act).ip0 ]_vars
    /\ [][ (Returned /\ Last(act).via = "return" /\ Len(act) > 1) =>
             /\ act' = Front(act)
             /\ ip' = NextInstr(Last(act).ip0) ]_vars

\* the arity of the function an activation runs
ArityOf(a) == Len(modules[a.module_idx + 1].types[FunOf(a).fun.ty + 1].args)

\* C10: entering a function of arity N pops exactly N values; the one pushed
\* first becomes local 0, the next local 1, ...; the values below them, and
\* the frames below the new one, are untouched.
C10_ArgumentBinding ==
    [][ Len(act') = Len(act) + 1 =>
          LET n == ArityOf(Last(act')) IN
          /\ Len(stack) >= n
          /\ stack' = SubSeq(stack, 1, Len(stack) - n)
          /\ Len(frames') = Len(frames) + 1
          /\ SubSeq(frames', 1, Len(frames)) = frames
          /\ \A i \in 0..(n - 1) :
                Last(frames').locals[i + 1] = stack[Len(stack) - n + 1 + i] ]_vars

\* a function of arity 3 has just been entered with 11, 12, 13 pushed in that
\* order above a 7
C10_Witness ==
    /\ InExec /\ Len(act) = 2 /\ ArityOf(Last(act)) = 3
    /\ Top.ty = "Function" /\ Top.cursor = 0
    /\ Last(act).stack0 = Marks(<<7, 11, 12, 13>>)
    /\ stack = Marks(<<7>>)
    /\ SubSeq(Current(frames).locals, 1, 3) = Marks(<<11, 12, 13>>)

\* every invocation in progress still has below it the frames it was entered
\* on, unchanged; a call that has returned has left exactly those
FramesBelowKept ==
    status = "ok" =>
        /\ \A k \in 1..Len(act) :
              /\ Len(frames) >= Len(act[k].frames0)
              /\ SubSeq(frames, 1, Len(act[k].frames0)) = act[k].frames0
        /\ Returned => frames = Last(act).frames0

\* the dispatched instruction is a local get, set or tee
AtLocalOp == At("LocalGet") \/ At("LocalSet") \/ At("LocalTee")

\* C11: a nested call never observes or mutates the caller's locals: the
\* frames a call was entered on (slots and module index) are unchanged while
\* it runs and when it returns, and a local get/set/tee reads and writes the
\* frame pushed by the invocation that executes it.
C11_CallerLocalsUntouched ==
    /\ []FramesBelowKept
    /\ [][ (AtLocalOp /\ status' = "ok") =>
             /\ Len(frames) = Len(Last(act).frames0) + 1
             /\ Front(frames') = Last(act).frames0
             /\ Last(frames').module = Last(frames).module
             /\ IF CurInstr.op = "LocalGet"
                THEN /\ frames' = frames
                     /\ stack' = Append(stack, Last(frames).locals[CurInstr.arg + 1])
                ELSE Last(frames').locals =
                        [Last(frames).locals EXCEPT ![CurInstr.arg + 1] = Last(stack)] ]_vars

\* the callee has written 21 and 22 to its slots 0 and 1 and returned; the
\* caller's slots still hold 5 and 6
C11_Witness ==
    /\ avail = {LocalsModule}
    /\ Returned /\ Len(act) = 2 /\ Last(act).fun_idx = 0
    /\ frames = <<[module |-> 0, locals |-> Marks(<<5, 6>>)]>>
    /\ stack = Marks(<<22, 21>>)

\* the embedder's call of the counter with count n is in progress
CounterRuns(n) ==
    avail = {CounterModule} /\ act # <<>> /\ act[1].fun_idx = n + 1

\* the invocations in progress of the counter called with n hold n, n-1, ...
\* in their local 0, none below 0
CounterArgs ==
    \A n \in 0..(MaxDepth - 2) :
        CounterRuns(n) =>
            /\ status = "ok"
            /\ Len(act) <= n + 2
            /\ \A j \in 2..Len(act) :
                  /\ act[j].fun_idx = 0
                  /\ Len(act[j].frames0) = j - 1
                  /\ Len(frames) >= j => frames[j].locals = Marks(<<n - (j - 2)>>)

\* C12: the recursive counter called with n >= 0 terminates: its
\* invocations hold n, n-1, ..., 0, each calls the next at most once (when
\* its callee returns it is at its end), so there are exactly n+1, and the
\* outermost call returns with no invocation left active.
C12_CounterTerminates ==
    /\ []CounterArgs
    /\ [][ (avail = {CounterModule} /\ Returned /\ Len(act) > 2) =>
             /\ Len(ip') = Len(ip) - 1
             /\ Last(ip').ty = "Function"
             /\ Last(ip').cursor = Len(Last(ip').instrs) ]_vars
    /\ (\E n \in 0..(MaxDepth - 2) : CounterRuns(n))
          ~> (act = <<>> /\ status = "ok" /\ stack = <<>> /\ frames = <<>> /\ ip = <<>>)

\* the call of the counter with count 2 has returned to the embedder
C12_Witness ==
    /\ avail = {CounterModule} /\ Len(act) = 1 /\ act[1].fun_idx = 3
    /\ Returned /\ stack = <<>> /\ frames = <<>> /\ ip = <<>>

\* the dispatched instruction finds two i32 on top of the operand stack:
\* b on top, a below it
TwoI32 ==
    /\ PopI32(stack).status = "ok"
    /\ PopI32(PopI32(stack).stack).status = "ok"

OperandA == PopI32(PopI32(stack).stack).val

OperandB == PopI32(stack).val

\* C13 (as claimed): i32.le_u pops b, then a, and pushes 1 when a <= b as
\* unsigned 32-bit integers and 0 otherwise, for all a and b.
C13_LeUnsigned ==
    [][ (At("I32Le_u") /\ TwoI32) =>
          /\ status' = "ok"
          /\ stack' = Append(SubSeq(stack, 1, Len(stack) - 2),
                             VI32(IF LeU32(OperandA, OperandB) THEN 1 ELSE 0)) ]_vars

\* C14 (as claimed): i32.sub pops b, then a, and pushes a - b reduced modulo
\* 2^32, for all a and b; it never fails.
C14_SubWraps ==
    [][ (At("I32Sub") /\ TwoI32) =>
          /\ status' = "ok"
          /\ stack' = Append(SubSeq(stack, 1, Len(stack) - 2),
                             VI32(WrapSub(OperandA, OperandB))) ]_vars

\* the store address the module of the current frame gives its global idx
GlobalOf(idx) == CurInst.global_addrs[idx + 1]

\* the dispatched global.get / global.set names a global of the current
\* module, and the set has its operand
GlobalOperandsOk ==
    /\ At("GlobalGet") \/ (At("GlobalSet") /\ stack # <<>>)
    /\ CurInstr.arg < Len(CurInst.global_addrs)

\* a body `i32.const v; global.set 0; global.get 0` whose get has just run
AfterSetGet ==
    /\ InExec /\ ip # <<>>
    /\ Len(Top.instrs) = 3 /\ Top.instrs[2] = GlobalSet(0) /\ Top.instrs[3] = GlobalGet(0)
    /\ Top.instrs[1].op = "I32Const" /\ Top.cursor = 3

\* no store address of a global is in the address tables of two modules
GlobalAddrsDisjoint ==
    \A m1, m2 \in 1..Len(modules) :
        m1 # m2 =>
            \A i \in 1..Len(modules[m1].global_addrs) :
            \A j \in 1..Len(modules[m2].global_addrs) :
                modules[m1].global_addrs[i] # modules[m2].global_addrs[j]

\* C15: in a function of module m, global.set i of v followed by
\* global.get i pushes v; the set changes the value at
\* Store.globals[modules[m].global_addrs[i]] and nothing else in the store,
\* and the globals of two modules never share a store address.
C15_GlobalRoundTrip ==
    /\ [](status = "ok" => GlobalAddrsDisjoint)
    /\ [](AfterSetGet => stack = Append(Last(act).stack0, VI32(Top.instrs[1].arg)))
    /\ [][ GlobalOperandsOk =>
             /\ status' = "ok"
             /\ IF CurInstr.op = "GlobalGet"
                THEN /\ store' = store
                     /\ stack' = Append(stack, store.globals[GlobalOf(CurInstr.arg) + 1].value)
                ELSE /\ stack' = Front(stack)
                     /\ store' = [store EXCEPT
                            !.globals[GlobalOf(CurInstr.arg) + 1].value = Last(stack)] ]_vars

\* a function of the second module has set and read back its global 0; the
\* first module's global 0, at another store address, still has its initial
\* value
C15_Witness ==
    /\ Len(modules) = 2 /\ AfterSetGet /\ Len(act) = 1 /\ act[1].module_idx = 1
    /\ modules[1].global_addrs[1] = 0 /\ modules[2].global_addrs[1] = 2
    /\ stack = <<store.globals[3].value>>
    /\ stack[1].val \in {40, 47}
    /\ store.globals[1].value.val \in {0, 7}

\* on the stack as it is: a pop right after a push gives the pushed value
\* back and the stack as it was; pop_i32 does so for an i32 and panics on
\* another variant; both panic on the empty stack
PopAfterPush ==
    status = "ok" =>
        /\ \A v \in StackValues :
              /\ Pop(Push(stack, v)) = [status |-> "ok", val |-> v, stack |-> stack]
              /\ IF v.ty = "I32"
                 THEN PopI32(Push(stack, v)) =
                          [status |-> "ok", val |-> v.val, stack |-> stack]
                 ELSE PopI32(Push(stack, v)).status = "type"
        /\ \A b \in BOOLEAN :
              PopI32(PushBool(stack, b)) =
                  [status |-> "ok", val |-> IF b THEN 1 ELSE 0, stack |-> stack]
        /\ stack = <<>> =>
              Pop(stack).status = "empty_stack" /\ PopI32(stack).status = "empty_stack"

\* C16: over every sequence of pushes and typed pops, a typed pop right
\* after a push of the same variant returns the pushed value and restores
\* the stack; a pop on the empty stack, and a pop_i32 of another variant, is
\* a panic: the only steps that shrink the stack remove its top, and the
\* only panics are these two.
C16_StackRoundTrip ==
    /\ []PopAfterPush
    /\ [][ /\ Len(stack') < Len(stack) => stack' = Front(stack)
           /\ status' = "empty_stack" => stack = <<>> /\ stack' = stack
           /\ status' = "type" => stack # <<>> /\ Last(stack).ty # "I32"
           /\ (status' = "ok" /\ Len(stack') > Len(stack)) =>
                  Pop(stack') = [status |-> "ok", val |-> Last(stack'), stack |-> stack]
         ]_vars

\* after the pushes of an i32, an i64 and an f32, pop_i32 has taken the f32
\* off and panicked
C16_Witness ==
    /\ avail = {} /\ status = "type"
    /\ stack = <<VI32(-1), VI64(7)>>

\* the lengths of the four store vectors and of the module list
StoreLens(sto, mods) ==
    <<Len(sto.funcs), Len(sto.tables), Len(sto.mems), Len(sto.globals), Len(mods)>>

\* the addresses of one kind that a module instance holds, the sentinel aside
AddrSet(addrs) == {addrs[i] : i \in 1..Len(addrs)} \ {SENTINEL}

\* no store address of any kind is held by two module instances
AddrsDisjoint ==
    \A m1, m2 \in 1..Len(modules) :
        m1 # m2 =>
            /\ AddrSet(modules[m1].func_addrs) \cap AddrSet(modules[m2].func_addrs) = {}
            /\ AddrSet(modules[m1].table_addrs) \cap AddrSet(modules[m2].table_addrs) = {}
            /\ AddrSet(modules[m1].mem_addrs) \cap AddrSet(modules[m2].mem_addrs) = {}
            /\ AddrSet(modules[m1].global_addrs) \cap AddrSet(modules[m2].global_addrs) = {}

\* C17: over every interleaving of allocate_module and call, the store
\* vectors and the module list never shrink; only allocate_module (no call in
\* progress before or after, the three stacks untouched) changes a length; a
\* function record keeps its position, body and module index, and a module
\* instance, once listed, stays as it is; no address other than the sentinel
\* is in the address tables of two modules.
C17_StoreOnlyGrows ==
    /\ []AddrsDisjoint
    /\ [][ /\ \A k \in 1..5 : StoreLens(store', modules')[k] >= StoreLens(store, modules)[k]
           /\ StoreLens(store', modules') # StoreLens(store, modules) =>
                  /\ act = <<>> /\ act' = <<>>
                  /\ UNCHANGED <<stack, frames, ip>>
           /\ SubSeq(store'.funcs, 1, Len(store.funcs)) = store.funcs
           /\ SubSeq(modules', 1, Len(modules)) = modules ]_vars

\* two instances are allocated and a call that wrote a global of the first
\* has returned
C17_Witness ==
    /\ Len(modules) = 2 /\ Returned
    /\ StoreLens(store, modules) = <<4, 0, 0, 4, 2>>
    /\ store.globals[1].value = VI32(40)
    /\ store.funcs[3].module_idx = 1

\* function index f of module instance m is out of range, or its address is
\* no position of Store.funcs (the sentinel of an unresolved import)
BadTarget(m, f) ==
    \/ ~ValidAddr(f, modules[m + 1].func_addrs)
    \/ ~ValidAddr(modules[m + 1].func_addrs[f + 1], store.funcs)

\* C18: a call of a function index that is out of range, or of an unresolved
\* import, fails and runs nothing: no invocation ever exists for such a
\* target, and the failing call, from the Call arm or from the embedder,
\* leaves the operand, frame and control stacks and the store as they were.
C18_BadCallFailsEarly ==
    /\ [](\A k \in 1..Len(act) : ~BadTarget(act[k].module_idx, act[k].fun_idx))
    /\ [][ (At("Call") /\ BadTarget(CurrentModule, CurInstr.arg)) =>
             /\ status' = "index"
             /\ UNCHANGED <<stack, frames, ip, store, act>> ]_vars
    /\ [][ (act = <<>> /\ status' = "index") =>
             UNCHANGED <<stack, frames, ip, store, act>> ]_vars

\* `i32.const 1; call 0; i32.const 3`, where function 0 is an unresolved
\* import, has stopped at the call: the 1 is still there, one frame, one
\* control entry at the call, and the 3 was never pushed
C18_Witness ==
    /\ avail = {RefusedModule} /\ status = "index"
    /\ Len(act) = 1 /\ Len(frames) = 1 /\ Len(ip) = 1
    /\ ip[1].instrs = <<C(1), Call(0), C(3)>> /\ ip[1].cursor = 1
    /\ modules[1].func_addrs[1] = SENTINEL
    /\ stack = <<VI32(1)>>

\* the innermost exec hands control back to call in this step
ExecReturns ==
    /\ InExec /\ status' = "ok"
    /\ Len(act') = Len(act) /\ Last(act').pc = "returned"

\* a body `block []; i32.const t` whose call has returned
EmptyBlockReturned ==
    /\ Returned
    /\ Len(FunOf(Last(act)).fun.expr) = 2
    /\ FunOf(Last(act)).fun.expr[1] = Block(<<>>)
    /\ IsConst(FunOf(Last(act)).fun.expr[2])

\* C19 (as claimed): exec returns to call only when the Function region has
\* run past its end or a `return` was executed; the end of a Block region,
\* an empty block included, only discards the Block entry, so the
\* instruction that follows an empty block in a function body has run when
\* the call returns.
C19_OnlyFunctionEndReturns ==
    /\ [][ ExecReturns =>
             \/ At("Return")
             \/ /\ ip # <<>> /\ Top.ty = "Function"
                /\ Top.cursor = Len(Top.instrs) ]_vars
    /\ [](EmptyBlockReturned =>
            stack = Append(Last(act).stack0, VI32(FunOf(Last(act)).fun.expr[2].arg)))

\* the instructions the dispatch table implements
Implemented == Handled \ {"Loop", "CallIndirect"}

\* C20: dispatching an instruction outside the implemented ones (loop,
\* call_indirect, anything not in the table) is a panic that leaves the
\* operand stack, the frames, the control stack with its cursors and the
\* store as they were; nothing runs after it.
C20_UnimplementedAborts ==
    /\ [][ (Dispatching /\ CurInstr.op \notin Implemented) =>
             /\ status' = "todo"
             /\ UNCHANGED <<stack, frames, ip, store, act, modules>> ]_vars
    /\ [][ status = "ok" ]_vars

\* `i32.const 1; loop (i32.const 2); i32.const 3` has stopped at the loop: the
\* cursor is on it, only the 1 was pushed
C20_Witness ==
    /\ avail = {RefusedModule} /\ status = "todo"
    /\ Len(act) = 1 /\ Len(ip) = 1 /\ Len(frames) = 1
    /\ ip[1].cursor = 1 /\ ip[1].instrs[2].op = "Loop"
    /\ stack = <<VI32(1)>>

\* the position in the control stack of the entry the dispatched br_if's
\* label names (label 0 is the entry on top)
LabelTarget == Len(ip) - CurInstr.arg

PlainStep ==
    \/ At("LocalGet") \/ At("LocalSet") \/ At("I32Const")
    \/ At("BrIf") /\ PopI32(stack).status = "ok" /\ PopI32(stack).val = 0

\* C22: next_instr on a top entry at its last instruction keeps a Loop entry
\* with cursor 0, removes a Block entry, keeps a Function entry with its
\* cursor past the end; elsewhere the top cursor grows by 1; the entries
\* below the top are unchanged in every case.
C22_NextInstrByKind ==
    [][ (PlainStep /\ status' = "ok") =>
          IF Top.cursor + 1 = Len(Top.instrs)
          THEN CASE Top.ty = "Loop" ->
                      ip' = Append(Front(ip), [Top EXCEPT !.cursor = 0])
                 [] Top.ty = "Block" -> ip' = Front(ip)
                 [] Top.ty = "Function" ->
                      ip' = Append(Front(ip), [Top EXCEPT !.cursor = Len(Top.instrs)])
          ELSE ip' = Append(Front(ip), [Top EXCEPT !.cursor = Top.cursor + 1]) ]_vars

\* the loop of `loop (local.get 0; br_if 0; i32.const 1; local.set 0)`, entered
\* with 0 in local 0, has run its last instruction: local 0 is 1 and the Loop
\* entry is still on top, at cursor 0
C22_Witness ==
    /\ InExec /\ Len(ip) = 2 /\ Top.ty = "Loop" /\ Top.cursor = 0
    /\ ip[1].instrs = LoopShape("la")
    /\ act[1].stack0 = <<VI32(0)>>
    /\ frames = <<[module |-> 0, locals |-> <<VI32(1)>>]>>

====
